---- MODULE Spec2Model ----
(***************************************************************************)
(* The welcome-email feedback graph of email_feedback.py: the WriteEmail   *)
(* and Feedback nodes, the two agents they await, and generate_email, the  *)
(* entry function that builds the run's State and runs the graph.          *)
(*                                                                         *)
(* Optional[T] values are sequences: <<>> is None, <<x>> is the value x.   *)
(* Text typed by the user (the interests field) is a sequence of           *)
(* characters, so that split and strip are computed.                       *)
(***************************************************************************)
EXTENDS Naturals, Sequences, FiniteSets

VARIABLES
    pc,             \* per run: position of generate_email / the graph run
    state,          \* per run: State(user, write_agent_messages), <<>> before the call
    email_feedback, \* per run: WriteEmail.email_feedback of the current WriteEmail node
    email,          \* per run: Feedback.email of the current Feedback node
    result,         \* per run: final_email, the End value of the graph run
    output,         \* per run: the string generate_email returns
    pending,        \* agent runs awaiting the backend (requests in flight)
    log,            \* per run: observation record (calls made, outcomes seen)
    environ,        \* os.environ: <<>> without OPENAI_API_KEY, <<key>> with it
    openai_api_key, \* the module-level openai_api_key
    example         \* example.py: the graph run started at NodeA

vars == <<pc, state, email_feedback, email, result, output, pending, log,
          environ, openai_api_key, example>>

----------------------------------------------------------------------------
(* Bounds *)

MaxDrafts == 3      \* WriteEmail executions explored per run
MaxCsvLen == 1      \* length of the interests text explored when the graph is run
MaxTrack == 40      \* largest track_number the example graph is started with
MaxParseLen == 6    \* length of the interests text explored when only the user is built
NumRuns == 2        \* generate_email calls explored in the interleaved specification
ConcMaxDrafts == 1  \* WriteEmail executions explored per run when runs interleave

Runs == 1..NumRuns
SoloRuns == {1}

----------------------------------------------------------------------------
(* Input and backend value sets *)

Names == {"Jane Doe", "Bob"}
ValidEmails == {"jane@example.com"}
EmailInputs == ValidEmails \cup {"not-an-email"}
Chars == {"a", " ", ","}

RECURSIVE SeqsUpTo(_, _)
SeqsUpTo(S, n) ==
    IF n = 0 THEN {<<>>}
    ELSE LET shorter == SeqsUpTo(S, n - 1)
         IN  shorter \cup {Append(s, c) : s \in {t \in shorter : Len(t) = n - 1}, c \in S}

CsvInputs == SeqsUpTo(Chars, MaxCsvLen)

\* Email (lines 30-33): what the writer agent can return as result.data.
Emails ==
    { [subject |-> "Welcome to ABC", body |-> "Hello and welcome."],
      [subject |-> "Welcome aboard", body |-> "We hear you enjoy chess and gardening."] }

\* EmailRequiresWrite / Email0k (lines 35-39): what the feedback agent can return.
FeedbackStrings == {"", "mention gardening", "mention chess"}
Email0k == [type |-> "Email0k", feedback |-> <<>>]
EmailRequiresWrite(fb) == [type |-> "EmailRequiresWrite", feedback |-> <<fb>>]
FeedbackResults == {Email0k} \cup {EmailRequiresWrite(fb) : fb \in FeedbackStrings}

----------------------------------------------------------------------------
(* generate_email: building the user *)

IsSpace(c) == c = " "

RECURSIVE Split(_, _)
\* str.split(sep): the pieces between separators, empty pieces kept.
Split(s, sep) ==
    IF \A i \in 1..Len(s) : s[i] # sep THEN <<s>>
    ELSE LET i == CHOOSE j \in 1..Len(s) : s[j] = sep /\ \A k \in 1..(j - 1) : s[k] # sep
         IN  <<SubSeq(s, 1, i - 1)>> \o Split(SubSeq(s, i + 1, Len(s)), sep)

RECURSIVE Strip(_)
\* str.strip(): leading and trailing whitespace removed.
Strip(s) ==
    IF s = <<>> THEN s
    ELSE IF IsSpace(s[1]) THEN Strip(Tail(s))
    ELSE IF IsSpace(s[Len(s)]) THEN Strip(SubSeq(s, 1, Len(s) - 1))
    ELSE s

RECURSIVE StripAndKeep(_)
\* [interest.strip() for interest in pieces if interest.strip()]
StripAndKeep(pieces) ==
    IF pieces = <<>> THEN <<>>
    ELSE LET head == Strip(Head(pieces))
         IN  (IF head # <<>> THEN <<head>> ELSE <<>>) \o StripAndKeep(Tail(pieces))

\* Variant: the `if interest.strip()` filter is missing.
ParseInterestsKeepsEmpties(interests) ==
    LET pieces == Split(interests, ",")
    IN  [k \in 1..Len(pieces) |-> Strip(pieces[k])]

\* [interest.strip() for interest in interests.split(",") if interest.strip()]
ParseInterests(interests) == StripAndKeep(Split(interests, ","))

\* User is a plain dataclass: the EmailStr annotation validates nothing.
User(name, addr, interests) == [name |-> name, email |-> addr, interests |-> interests]

NewState(user) == [user |-> user, write_agent_messages |-> <<>>]

----------------------------------------------------------------------------
(* Prompts *)

XmlText(tag, text) == [tag |-> tag, text |-> text, items |-> <<>>]
XmlList(tag, items) == [tag |-> tag, text |-> "", items |-> items]

\* format_as_xml(user): one element per field of the dataclass, in field order.
FormatAsXml(user) ==
    << XmlText("name", user.name),
       XmlText("email", user.email),
       XmlList("interests", user.interests) >>

\* The literal user_xml of the no-feedback branch.
ExampleUserXml ==
    << XmlText("name", "John Doe"), XmlText("email", "john.joe@example.com") >>

Truthy(opt) == opt # <<>> /\ opt[1] # ""

\* WriteEmail.run, prompt construction.
WritePrompt(user, feedback) ==
    IF Truthy(feedback)
    THEN [text |-> "Rewrite the email for the user",
          user |-> FormatAsXml(user),
          email |-> <<>>,
          feedback |-> feedback]
    ELSE [text |-> "Write a welcome email for the user",
          user |-> ExampleUserXml,
          email |-> <<>>,
          feedback |-> <<>>]

\* Feedback.run, prompt construction.
FeedbackPrompt(user, mail) ==
    [text |-> "",
     user |-> FormatAsXml(user),
     email |-> <<mail>>,
     feedback |-> <<>>]

\* An agent run: the agent's OpenAIModel was built with openai_api_key.
Request(r, agent, prompt) ==
    [run |-> r, agent |-> agent, prompt |-> prompt, api_key |-> openai_api_key]

\* result.all_messages() of an agent run started without message_history.
AllMessages(prompt, data) ==
    << [kind |-> "request", prompt |-> <<prompt>>, data |-> <<>>],
       [kind |-> "response", prompt |-> <<>>, data |-> <<data>>] >>

\* ctx.state.write_agent_messages = result.all_messages()
StoreMessages(old, new) == new

----------------------------------------------------------------------------
(* State *)

NoLog ==
    [draftCalls |-> 0,          \* email_writer_agent.run calls made
     critiqueCalls |-> 0,       \* feedback_agent.run calls made
     revisions |-> 0,           \* EmailRequiresWrite results received
     failures |-> 0,            \* agent runs that raised
     profile |-> <<>>,          \* the User built by generate_email for this run
     interests |-> <<>>,        \* the interests text generate_email was called with
     lastOutcome |-> <<>>,      \* result.data of the latest feedback_agent.run
     lastDraft |-> <<>>,        \* result.data of the latest email_writer_agent.run
     lastEvent |-> "none",      \* the latest agent event of the run
     drafted |-> {},            \* every result.data the writer agent returned to this run
     priorMessages |-> <<>>]    \* write_agent_messages as it was before the latest store

\* os.getenv(key, default) on the process environment.
Getenv(env, default) == IF env = <<>> THEN default ELSE env[1]

Environments == {<<>>, <<"sk-from-environment">>}

\* example.py has not run.
NoExample == [node |-> "none", track_number |-> 0, start |-> 0,
              executed |-> <<>>, result |-> <<>>]

\* email_feedback.py after its module-level statements.
Init ==
    /\ environ \in Environments
    /\ openai_api_key = Getenv(environ, "your-api-key-here")
    /\ example = NoExample
    /\ pc = [r \in Runs |-> "idle"]
    /\ state = [r \in Runs |-> <<>>]
    /\ email_feedback = [r \in Runs |-> <<>>]
    /\ email = [r \in Runs |-> <<>>]
    /\ result = [r \in Runs |-> <<>>]
    /\ output = [r \in Runs |-> <<>>]
    /\ pending = {}
    /\ log = [r \in Runs |-> NoLog]

\* Variant: one module-level State, the one of the first call that built it.
CtxShared(r) ==
    state[CHOOSE s \in Runs : state[s] # <<>> /\ \A t \in 1..(s - 1) : state[t] = <<>>][1]

\* ctx.state of run r: the State object handed to run_sync by that call.
Ctx(r) == state[r][1]

PendingOf(r, agent) == {q \in pending : q.run = r /\ q.agent = agent}

----------------------------------------------------------------------------
(* generate_email, up to the start of the graph run *)

GenerateEmail(r, name, addr, interests) ==
    /\ pc[r] = "idle"
    /\ LET interests_list == ParseInterests(interests)
           user_obj == User(name, addr, interests_list)
       IN  /\ state' = [state EXCEPT ![r] = <<NewState(user_obj)>>]
           /\ log' = [log EXCEPT ![r].profile = <<user_obj>>,
                                 ![r].interests = <<interests>>]
    /\ email_feedback' = [email_feedback EXCEPT ![r] = <<>>]
    /\ pc' = [pc EXCEPT ![r] = "WriteEmail"]
    /\ UNCHANGED <<email, result, output, pending>>
    /\ UNCHANGED <<environ, openai_api_key, example>>

----------------------------------------------------------------------------
(* WriteEmail.run *)

\* Variant: the rewrite prompt also quotes the email being replaced.
WriteEmailCallQuotesEmail(r) ==
    /\ pc[r] = "WriteEmail"
    /\ LET prompt == [WritePrompt(Ctx(r).user, email_feedback[r]) EXCEPT !.email = email[r]]
       IN  pending' = pending \cup {Request(r, "email_writer_agent", prompt)}
    /\ log' = [log EXCEPT ![r].draftCalls = @ + 1,
                          ![r].lastEvent = "draft started"]
    /\ pc' = [pc EXCEPT ![r] = "AwaitWriter"]
    /\ UNCHANGED <<state, email_feedback, email, result, output>>
    /\ UNCHANGED <<environ, openai_api_key, example>>

\* Up to the await: build the prompt and start the writer agent.
WriteEmailCall(r) ==
    /\ pc[r] = "WriteEmail"
    /\ LET prompt == WritePrompt(Ctx(r).user, email_feedback[r])
       IN  pending' = pending \cup {Request(r, "email_writer_agent", prompt)}
    /\ log' = [log EXCEPT ![r].draftCalls = @ + 1,
                          ![r].lastEvent = "draft started"]
    /\ pc' = [pc EXCEPT ![r] = "AwaitWriter"]
    /\ UNCHANGED <<state, email_feedback, email, result, output>>
    /\ UNCHANGED <<environ, openai_api_key, example>>

\* Variant: the Feedback node is handed the run's first email again.
WriteEmailReturnKeepsFirst(r, data) ==
    /\ pc[r] = "AwaitWriter"
    /\ \E q \in PendingOf(r, "email_writer_agent") :
          /\ pending' = pending \ {q}
          /\ state' = [state EXCEPT ![r] =
                <<[Ctx(r) EXCEPT !.write_agent_messages =
                      StoreMessages(@, AllMessages(q.prompt, data))]>>]
          /\ log' = [log EXCEPT ![r].lastDraft = <<data>>,
                                ![r].lastEvent = "draft returned",
                                ![r].drafted = @ \cup {data},
                                ![r].priorMessages = Ctx(r).write_agent_messages]
    /\ email' = [email EXCEPT ![r] = IF @ # <<>> THEN @ ELSE <<data>>]
    /\ pc' = [pc EXCEPT ![r] = "Feedback"]
    /\ UNCHANGED <<email_feedback, result, output>>
    /\ UNCHANGED <<environ, openai_api_key, example>>

\* Variant: a rewrite keeps the subject of the email it replaces.
WriteEmailReturnMerges(r, data) ==
    /\ pc[r] = "AwaitWriter"
    /\ \E q \in PendingOf(r, "email_writer_agent") :
          /\ pending' = pending \ {q}
          /\ state' = [state EXCEPT ![r] =
                <<[Ctx(r) EXCEPT !.write_agent_messages =
                      StoreMessages(@, AllMessages(q.prompt, data))]>>]
          /\ log' = [log EXCEPT ![r].lastDraft = <<data>>,
                                ![r].lastEvent = "draft returned",
                                ![r].drafted = @ \cup {data},
                                ![r].priorMessages = Ctx(r).write_agent_messages]
    /\ email' = [email EXCEPT ![r] =
                    IF @ # <<>> THEN <<[subject |-> @[1].subject, body |-> data.body]>>
                    ELSE <<data>>]
    /\ pc' = [pc EXCEPT ![r] = "Feedback"]
    /\ UNCHANGED <<email_feedback, result, output>>
    /\ UNCHANGED <<environ, openai_api_key, example>>

\* Variant: storing the messages also rewrites the user held by the state.
WriteEmailReturnRenamesUser(r, data) ==
    /\ pc[r] = "AwaitWriter"
    /\ \E q \in PendingOf(r, "email_writer_agent") :
          /\ pending' = pending \ {q}
          /\ state' = [state EXCEPT ![r] =
                <<[Ctx(r) EXCEPT !.write_agent_messages =
                      StoreMessages(@, AllMessages(q.prompt, data)),
                                !.user.name = "John Doe"]>>]
          /\ log' = [log EXCEPT ![r].lastDraft = <<data>>,
                                ![r].lastEvent = "draft returned",
                                ![r].drafted = @ \cup {data},
                                ![r].priorMessages = Ctx(r).write_agent_messages]
    /\ email' = [email EXCEPT ![r] = <<data>>]
    /\ pc' = [pc EXCEPT ![r] = "Feedback"]
    /\ UNCHANGED <<email_feedback, result, output>>
    /\ UNCHANGED <<environ, openai_api_key, example>>

\* After the await: store the messages and hand the email to a Feedback node.
WriteEmailReturn(r, data) ==
    /\ pc[r] = "AwaitWriter"
    /\ \E q \in PendingOf(r, "email_writer_agent") :
          /\ pending' = pending \ {q}
          /\ state' = [state EXCEPT ![r] =
                <<[Ctx(r) EXCEPT !.write_agent_messages =
                      StoreMessages(@, AllMessages(q.prompt, data))]>>]
          /\ log' = [log EXCEPT ![r].lastDraft = <<data>>,
                                ![r].lastEvent = "draft returned",
                                ![r].drafted = @ \cup {data},
                                ![r].priorMessages = Ctx(r).write_agent_messages]
    /\ email' = [email EXCEPT ![r] = <<data>>]
    /\ pc' = [pc EXCEPT ![r] = "Feedback"]
    /\ UNCHANGED <<email_feedback, result, output>>
    /\ UNCHANGED <<environ, openai_api_key, example>>

\* Variant: the exception is caught and the node is run again.
WriteEmailFailRetries(r) ==
    /\ pc[r] = "AwaitWriter"
    /\ \E q \in PendingOf(r, "email_writer_agent") : pending' = pending \ {q}
    /\ log' = [log EXCEPT ![r].failures = @ + 1,
                          ![r].lastEvent = "raised"]
    /\ pc' = [pc EXCEPT ![r] = "WriteEmail"]
    /\ UNCHANGED <<state, email_feedback, email, result, output>>
    /\ UNCHANGED <<environ, openai_api_key, example>>

\* The awaited agent run raises: nothing catches it in the node, the graph
\* or generate_email.
WriteEmailFail(r) ==
    /\ pc[r] = "AwaitWriter"
    /\ \E q \in PendingOf(r, "email_writer_agent") : pending' = pending \ {q}
    /\ log' = [log EXCEPT ![r].failures = @ + 1,
                          ![r].lastEvent = "raised"]
    /\ pc' = [pc EXCEPT ![r] = "Error"]
    /\ UNCHANGED <<state, email_feedback, email, result, output>>
    /\ UNCHANGED <<environ, openai_api_key, example>>

----------------------------------------------------------------------------
(* Feedback.run *)

FeedbackCall(r) ==
    /\ pc[r] = "Feedback"
    /\ LET prompt == FeedbackPrompt(Ctx(r).user, email[r][1])
       IN  pending' = pending \cup {Request(r, "feedback_agent", prompt)}
    /\ log' = [log EXCEPT ![r].critiqueCalls = @ + 1,
                          ![r].lastOutcome = <<>>,
                          ![r].lastEvent = "critique started"]
    /\ pc' = [pc EXCEPT ![r] = "AwaitFeedback"]
    /\ UNCHANGED <<state, email_feedback, email, result, output>>
    /\ UNCHANGED <<environ, openai_api_key, example>>

\* Variant: the isinstance test is inverted.
FeedbackNextInverted(data, mail) ==
    IF data.type # "EmailRequiresWrite"
    THEN [node |-> "WriteEmail", email_feedback |-> data.feedback, end |-> <<>>]
    ELSE [node |-> "End", email_feedback |-> <<>>, end |-> mail]

\* Variant: a required rewrite sends the same email to a Feedback node again.
FeedbackNextRecritiques(data, mail) ==
    IF data.type = "EmailRequiresWrite"
    THEN [node |-> "Feedback", email_feedback |-> data.feedback, end |-> <<>>]
    ELSE [node |-> "End", email_feedback |-> <<>>, end |-> mail]

\* The node Feedback.run returns: WriteEmail(email_feedback=...) or End(email).
FeedbackNext(data, mail) ==
    IF data.type = "EmailRequiresWrite"
    THEN [node |-> "WriteEmail", email_feedback |-> data.feedback, end |-> <<>>]
    ELSE [node |-> "End", email_feedback |-> <<>>, end |-> mail]

\* Variant: the result is consumed but the node never resumes.
FeedbackReturnHangs(r, data) ==
    /\ pc[r] = "AwaitFeedback"
    /\ PendingOf(r, "feedback_agent") # {}
    /\ pending' = pending \ PendingOf(r, "feedback_agent")
    /\ log' = [log EXCEPT ![r].lastOutcome = <<data>>,
                          ![r].lastEvent = "critique returned"]
    /\ UNCHANGED <<pc, state, email_feedback, email, result, output>>
    /\ UNCHANGED <<environ, openai_api_key, example>>

\* Variant: after one rewrite the node ends the run with the email it holds.
FeedbackReturnCapped(r, data) ==
    /\ pc[r] = "AwaitFeedback"
    /\ \E q \in PendingOf(r, "feedback_agent") : pending' = pending \ {q}
    /\ LET next == IF log[r].revisions >= 1
                   THEN FeedbackNext(Email0k, email[r])
                   ELSE FeedbackNext(data, email[r])
       IN  /\ pc' = [pc EXCEPT ![r] = next.node]
           /\ email_feedback' = [email_feedback EXCEPT ![r] = next.email_feedback]
           /\ result' = [result EXCEPT ![r] = next.end]
    /\ log' = [log EXCEPT ![r].lastOutcome = <<data>>,
                          ![r].lastEvent = "critique returned",
                          ![r].revisions = IF data.type = "EmailRequiresWrite"
                                           THEN @ + 1 ELSE @]
    /\ UNCHANGED <<state, email, output>>
    /\ UNCHANGED <<environ, openai_api_key, example>>

FeedbackReturn(r, data) ==
    /\ pc[r] = "AwaitFeedback"
    /\ \E q \in PendingOf(r, "feedback_agent") : pending' = pending \ {q}
    /\ LET next == FeedbackNext(data, email[r])
       IN  /\ pc' = [pc EXCEPT ![r] = next.node]
           /\ email_feedback' = [email_feedback EXCEPT ![r] = next.email_feedback]
           /\ result' = [result EXCEPT ![r] = next.end]
    /\ log' = [log EXCEPT ![r].lastOutcome = <<data>>,
                          ![r].lastEvent = "critique returned",
                          ![r].revisions = IF data.type = "EmailRequiresWrite"
                                           THEN @ + 1 ELSE @]
    /\ UNCHANGED <<state, email, output>>
    /\ UNCHANGED <<environ, openai_api_key, example>>

FeedbackFail(r) ==
    /\ pc[r] = "AwaitFeedback"
    /\ \E q \in PendingOf(r, "feedback_agent") : pending' = pending \ {q}
    /\ log' = [log EXCEPT ![r].failures = @ + 1,
                          ![r].lastEvent = "raised"]
    /\ pc' = [pc EXCEPT ![r] = "Error"]
    /\ UNCHANGED <<state, email_feedback, email, result, output>>
    /\ UNCHANGED <<environ, openai_api_key, example>>

----------------------------------------------------------------------------
(* generate_email, after run_sync returns *)

Render(final_email) == <<"Subject: ", final_email.subject, "\n\n", final_email.body>>

ReturnEmail(r) ==
    /\ pc[r] = "End"
    /\ output' = [output EXCEPT ![r] = <<Render(result[r][1])>>]
    /\ pc' = [pc EXCEPT ![r] = "Returned"]
    /\ UNCHANGED <<state, email_feedback, email, result, pending, log>>
    /\ UNCHANGED <<environ, openai_api_key, example>>

----------------------------------------------------------------------------
(* Specifications *)

\* The feedback agent's results explored for run r: a further rewrite is asked
\* for only while the run has made fewer than cap writer calls.
Explored(results, r, cap) ==
    {data \in results : data.type = "EmailRequiresWrite" => log[r].draftCalls < cap}

\* One generate_email call.
Next ==
    \E r \in SoloRuns :
        \/ \E name \in Names, addr \in EmailInputs, interests \in CsvInputs :
              GenerateEmail(r, name, addr, interests)
        \/ WriteEmailCall(r)
        \/ \E data \in Emails : WriteEmailReturn(r, data)
        \/ WriteEmailFail(r)
        \/ FeedbackCall(r)
        \/ \E data \in Explored(FeedbackResults, r, MaxDrafts) : FeedbackReturn(r, data)
        \/ FeedbackFail(r)
        \/ ReturnEmail(r)

Spec == Init /\ [][Next]_vars

\* The event loop runs every node to its end and every awaited agent run
\* returns or raises.
FairSpec == Spec /\ WF_vars(Next)

\* NumRuns generate_email calls whose awaits interleave.
ConcNames == Names
ConcCsvInputs == {<<"a">>}
ConcFeedbackResults == {Email0k, EmailRequiresWrite("mention gardening")}

NextConc ==
    \E r \in Runs :
        \/ \E name \in ConcNames, addr \in ValidEmails, interests \in ConcCsvInputs :
              GenerateEmail(r, name, addr, interests)
        \/ WriteEmailCall(r)
        \/ \E data \in Emails : WriteEmailReturn(r, data)
        \/ WriteEmailFail(r)
        \/ FeedbackCall(r)
        \/ \E data \in Explored(ConcFeedbackResults, r, ConcMaxDrafts) :
              FeedbackReturn(r, data)
        \/ FeedbackFail(r)
        \/ ReturnEmail(r)

\* generate_email up to the User it builds, on longer interests texts.
ParseInputs == SeqsUpTo(Chars, MaxParseLen)

NextParse ==
    \E r \in SoloRuns, name \in Names, addr \in EmailInputs, interests \in ParseInputs :
        GenerateEmail(r, name, addr, interests)

SpecParse == Init /\ [][NextParse]_vars

InitConc == Init /\ environ # <<>>

SpecConc == InitConc /\ [][NextConc]_vars

----------------------------------------------------------------------------
(* example.py: the graph NodeA -> NodeB -> (End | NodeC -> End) *)

TrackNumbers == 0..MaxTrack

\* graph.run_sync(start_node=NodeA(track_number=n))
StartAt(n) == [node |-> "NodeA", track_number |-> n, start |-> n,
               executed |-> <<>>, result |-> <<>>]

\* f"Stop at Node {which} with value --> {n}"
StopAt(which, n) == [text |-> "Stop at Node", node |-> which, value |-> n]

emailVars == <<pc, state, email_feedback, email, result, output, pending, log,
               environ, openai_api_key>>

\* NodeA.run: return NodeB(self.track_number)
NodeARun ==
    /\ example.node = "NodeA"
    /\ example' = [example EXCEPT !.node = "NodeB",
                                  !.track_number = example.track_number,
                                  !.executed = Append(@, "NodeA")]
    /\ UNCHANGED emailVars

\* Variant: the test on track_number is inverted.
NodeBRunInverted ==
    /\ example.node = "NodeB"
    /\ example' = IF example.track_number # 1
                  THEN [example EXCEPT !.node = "End",
                                       !.executed = Append(@, "NodeB"),
                                       !.result = <<StopAt("B", example.track_number)>>]
                  ELSE [example EXCEPT !.node = "NodeC",
                                       !.track_number = example.track_number,
                                       !.executed = Append(@, "NodeB")]
    /\ UNCHANGED emailVars

\* NodeB.run: End at track_number 1, NodeC(self.track_number) otherwise.
NodeBRun ==
    /\ example.node = "NodeB"
    /\ example' = IF example.track_number = 1
                  THEN [example EXCEPT !.node = "End",
                                       !.executed = Append(@, "NodeB"),
                                       !.result = <<StopAt("B", example.track_number)>>]
                  ELSE [example EXCEPT !.node = "NodeC",
                                       !.track_number = example.track_number,
                                       !.executed = Append(@, "NodeB")]
    /\ UNCHANGED emailVars

\* NodeC.run: End
NodeCRun ==
    /\ example.node = "NodeC"
    /\ example' = [example EXCEPT !.node = "End",
                                  !.executed = Append(@, "NodeC"),
                                  !.result = <<StopAt("C", example.track_number)>>]
    /\ UNCHANGED emailVars

InitExample ==
    /\ environ = <<>>
    /\ openai_api_key = Getenv(environ, "your-api-key-here")
    /\ pc = [r \in Runs |-> "idle"]
    /\ state = [r \in Runs |-> <<>>]
    /\ email_feedback = [r \in Runs |-> <<>>]
    /\ email = [r \in Runs |-> <<>>]
    /\ result = [r \in Runs |-> <<>>]
    /\ output = [r \in Runs |-> <<>>]
    /\ pending = {}
    /\ log = [r \in Runs |-> NoLog]
    /\ example \in {StartAt(n) : n \in TrackNumbers}

NextExample == NodeARun \/ NodeBRun \/ NodeCRun

\* run_sync runs the returned node until a node returns End.
SpecExample == InitExample /\ [][NextExample]_vars /\ WF_vars(NextExample)

----------------------------------------------------------------------------
(* Properties *)

IsPrefix(a, b) == Len(a) <= Len(b) /\ SubSeq(b, 1, Len(a)) = a

Started(r) == pc[r] # "idle"
Profile(r) == log[r].profile[1]
RequestsOf(r) == {q \in pending : q.run = r}

\* The feedback agent has just returned Email0k to run r in this step.
ApprovedNow(r) == log[r].lastOutcome = <<>> /\ log'[r].lastOutcome = <<Email0k>>

\* C1: once a critique call returns the approved outcome, the next state is
\* End holding the critiqued document, and from then on the run makes no
\* further writer or feedback agent call.
C1_ApprovedIsFinal ==
    [][\A r \in Runs :
          /\ ApprovedNow(r) =>
                /\ pc'[r] = "End"
                /\ \A q \in PendingOf(r, "feedback_agent") : result'[r] = q.prompt.email
          /\ log[r].lastOutcome = <<Email0k>> =>
                /\ pc'[r] \in {"End", "Returned"}
                /\ result'[r] = result[r]
                /\ log'[r].draftCalls = log[r].draftCalls
                /\ log'[r].critiqueCalls = log[r].critiqueCalls
                /\ RequestsOf(r)' = {}]_vars

C1_Witness ==
    \E r \in Runs :
        /\ pc[r] = "End"
        /\ log[r].lastOutcome = <<Email0k>>
        /\ log[r].revisions >= 1
        /\ result[r] = email[r]

\* C2: a run without failures in which the feedback agent asked for a rewrite
\* k times and then approved has made k+1 writer calls and k+1 feedback calls,
\* and the email it ends with and returns is the latest writer result.
C2_CallCounts ==
    \A r \in Runs :
        pc[r] \in {"End", "Returned"} /\ log[r].failures = 0 =>
            /\ log[r].draftCalls = log[r].revisions + 1
            /\ log[r].critiqueCalls = log[r].revisions + 1
            /\ result[r] = log[r].lastDraft
            /\ pc[r] = "Returned" => output[r] = <<Render(log[r].lastDraft[1])>>

C2_Witness ==
    \E r \in Runs :
        /\ pc[r] = "Returned"
        /\ log[r].revisions = 2
        /\ log[r].draftCalls = 3
        /\ Cardinality(log[r].drafted) = 2

\* C3: after the feedback agent returned EmailRequiresWrite(feedback), the
\* next writer call carries the rewrite prompt with that feedback and the
\* run's user, whatever the feedback string is.
C3_RewriteAfterFeedback ==
    \A r \in Runs :
        /\ pc[r] = "AwaitWriter"
        /\ log[r].lastOutcome # <<>>
        /\ log[r].lastOutcome[1].type = "EmailRequiresWrite"
        => \A q \in PendingOf(r, "email_writer_agent") :
              /\ q.prompt.text = "Rewrite the email for the user"
              /\ q.prompt.feedback = log[r].lastOutcome[1].feedback
              /\ q.prompt.user = FormatAsXml(Profile(r))

\* C4: the first writer call of a run (no feedback) carries the name and the
\* interests of the run's user.
C4_InitialPromptUsesUser ==
    \A r \in Runs :
        pc[r] = "AwaitWriter" /\ email_feedback[r] = <<>> =>
            \A q \in PendingOf(r, "email_writer_agent") :
                /\ \E i \in 1..Len(q.prompt.user) :
                      q.prompt.user[i] = XmlText("name", Profile(r).name)
                /\ \E i \in 1..Len(q.prompt.user) :
                      q.prompt.user[i] = XmlList("interests", Profile(r).interests)

\* C5: an agent run that raises ends the run in the error state at once; the
\* error state is never left, no further agent call is made from it, nothing
\* is in flight and no email is returned.
C5_FailureIsTerminal ==
    /\ [](\A r \in Runs :
             pc[r] = "Error" =>
                 /\ result[r] = <<>>
                 /\ output[r] = <<>>
                 /\ RequestsOf(r) = {})
    /\ [][\A r \in Runs :
             /\ log'[r].failures > log[r].failures => pc'[r] = "Error"
             /\ pc[r] = "Error" => pc'[r] = "Error" /\ log'[r] = log[r]]_vars

C5_Witness ==
    \E r \in Runs :
        /\ pc[r] = "Error"
        /\ log[r].lastEvent = "raised"
        /\ log[r].draftCalls = 2
        /\ log[r].critiqueCalls = 1

\* C6: a generate_email call with a syntactically invalid email address makes
\* no writer or feedback agent call.
C6_InvalidEmailRejected ==
    \A r \in Runs :
        Started(r) /\ Profile(r).email \notin ValidEmails =>
            /\ log[r].draftCalls = 0
            /\ log[r].critiqueCalls = 0
            /\ RequestsOf(r) = {}

\* C7: the message history of a run only grows: what it held before a writer
\* call returned is a prefix of what it holds afterwards.
C7_HistoryAppendOnly ==
    \A r \in Runs :
        Started(r) => IsPrefix(log[r].priorMessages, state[r][1].write_agent_messages)

\* C8: a run has at most one agent call in flight, its calls alternate
\* starting with the writer (every feedback call directly follows a writer
\* call that returned), and critiqueCalls <= draftCalls <= critiqueCalls + 1.
C8_Sequential ==
    /\ [](\A r \in Runs :
             /\ Cardinality(RequestsOf(r)) <= 1
             /\ log[r].critiqueCalls <= log[r].draftCalls
             /\ log[r].draftCalls <= log[r].critiqueCalls + 1)
    /\ [][\A r \in Runs :
             /\ log'[r].critiqueCalls # log[r].critiqueCalls =>
                   log[r].lastEvent = "draft returned"
             /\ log'[r].draftCalls # log[r].draftCalls =>
                   log[r].lastEvent \in {"none", "critique returned"}]_vars

C8_Witness ==
    \E r \in Runs :
        /\ pc[r] = "AwaitFeedback"
        /\ log[r].critiqueCalls = 2
        /\ log[r].draftCalls = 2
        /\ Cardinality(RequestsOf(r)) = 1

\* C9: a run in which no agent call fails, and in which the feedback agent
\* approves after the finitely many rewrites explored, reaches End.
C9_EventuallyDone ==
    \A r \in SoloRuns : [](pc[r] # "Error") => <>(pc[r] = "End")

C9_Witness ==
    \E r \in SoloRuns :
        /\ pc[r] = "End"
        /\ log[r].failures = 0
        /\ log[r].revisions = MaxDrafts - 1

OwnUserXmls(r) == {FormatAsXml(Profile(r)), ExampleUserXml}

C11_OutcomeWellFormed ==
    \A r \in Runs :
        log[r].lastOutcome # <<>> =>
            LET data == log[r].lastOutcome[1]
            IN  /\ data.type \in {"Email0k", "EmailRequiresWrite"}
                /\ data.type = "Email0k" => data.feedback = <<>>
                /\ data.type = "EmailRequiresWrite" =>
                      data.feedback # <<>> /\ data.feedback[1] # ""


\* C12: without OPENAI_API_KEY in the environment the program fails at start:
\* no run starts and no agent call is made with a placeholder key.
C12_FailsFastWithoutKey ==
    environ = <<>> =>
        /\ \A r \in Runs : pc[r] = "idle" /\ log[r].draftCalls = 0
        /\ \A q \in pending : q.api_key # "your-api-key-here"


\* The positions of the commas of s, and the k-th of them (0 before the text,
\* Len(s) + 1 after it).
CommaPositions(s) == {i \in 1..Len(s) : s[i] = ","}
CommaAt(s, k) ==
    IF k = 0 THEN 0
    ELSE IF k > Cardinality(CommaPositions(s)) THEN Len(s) + 1
    ELSE CHOOSE i \in CommaPositions(s) :
            Cardinality({j \in CommaPositions(s) : j <= i}) = k

\* The k-th comma-separated piece of s, and a piece without its surrounding blanks.
PieceAt(s, k) == SubSeq(s, CommaAt(s, k - 1) + 1, CommaAt(s, k) - 1)
Trimmed(p) ==
    LET inked == {i \in 1..Len(p) : p[i] # " "}
    IN  IF inked = {} THEN <<>>
        ELSE SubSeq(p, CHOOSE i \in inked : \A j \in inked : i <= j,
                       CHOOSE i \in inked : \A j \in inked : i >= j)
NonEmpty(p) == p # <<>>
TrimmedPieces(s) ==
    SelectSeq([k \in 1..(Cardinality(CommaPositions(s)) + 1) |-> Trimmed(PieceAt(s, k))],
              NonEmpty)

\* C13: the user's interests are the comma-separated pieces of the interests
\* text, in input order, trimmed, with the pieces that are empty after
\* trimming dropped: no element is empty or starts or ends with a blank.
C13_InterestsParsed ==
    \A r \in Runs :
        Started(r) =>
            LET parsed == Profile(r).interests
            IN  /\ parsed = TrimmedPieces(log[r].interests[1])
                /\ \A k \in 1..Len(parsed) :
                      /\ parsed[k] # <<>>
                      /\ parsed[k][1] # " "
                      /\ parsed[k][Len(parsed[k])] # " "
                      /\ \A i \in 1..Len(parsed[k]) : parsed[k][i] # ","

\* "a, ,a," (the shape of "chess, , gardening,") parses to two interests.
C13_Witness ==
    \E r \in Runs :
        /\ Started(r)
        /\ log[r].interests = << <<"a", ",", " ", ",", "a", ",">> >>
        /\ Profile(r).interests = << <<"a">>, <<"a">> >>


\* C14: no step of a run changes state.user: name, email and interests stay
\* those generate_email built, so every agent call of the run is prepared
\* from the same profile.
C14_UserUnchanged ==
    /\ [][\A r \in Runs :
             Started(r) =>
                 /\ state'[r][1].user.name = state[r][1].user.name
                 /\ state'[r][1].user.email = state[r][1].user.email
                 /\ state'[r][1].user.interests = state[r][1].user.interests]_vars
    /\ [](\A r \in Runs :
             RequestsOf(r) # {} => state[r][1].user = Profile(r))

C14_Witness ==
    \E r \in Runs :
        /\ pc[r] = "AwaitFeedback"
        /\ log[r].revisions = 1
        /\ state[r][1].user = Profile(r)
        /\ Profile(r).interests # <<>>
        /\ state[r][1].write_agent_messages # <<>>


\* C15: the email a Feedback node holds and sends to the feedback agent is the
\* result of the run's latest writer call, whole; the email at End is that
\* same email, never one of an earlier round.
C15_CurrentDocument ==
    \A r \in Runs :
        /\ Len(email[r]) <= 1
        /\ pc[r] \in {"Feedback", "AwaitFeedback"} => email[r] = log[r].lastDraft
        /\ \A q \in PendingOf(r, "feedback_agent") : q.prompt.email = log[r].lastDraft
        /\ pc[r] \in {"End", "Returned"} =>
              /\ result[r] = log[r].lastDraft
              /\ result[r] = email[r]

C15_Witness ==
    \E r \in Runs :
        /\ pc[r] = "AwaitFeedback"
        /\ log[r].revisions = 2
        /\ log[r].drafted = Emails
        /\ \A q \in PendingOf(r, "feedback_agent") : q.prompt.email = log[r].lastDraft


\* The feedback agent has just returned EmailRequiresWrite to run r in this step.
RewriteAskedNow(r) ==
    /\ log[r].lastOutcome = <<>>
    /\ log'[r].lastOutcome # <<>>
    /\ log'[r].lastOutcome[1].type = "EmailRequiresWrite"

\* C16: no revision count stops the loop: however many writer calls the run
\* has made, an EmailRequiresWrite result sends it to another WriteEmail node,
\* which can always make its writer call.
C16_NoRevisionCap ==
    /\ [][\A r \in Runs :
             RewriteAskedNow(r) =>
                 /\ pc'[r] = "WriteEmail"
                 /\ email_feedback'[r] = log'[r].lastOutcome[1].feedback
                 /\ result'[r] = <<>>]_vars
    /\ [](\A r \in Runs : pc[r] = "WriteEmail" => ENABLED WriteEmailCall(r))

\* A run without failures that has made MaxDrafts writer calls and is not done.
C16_Witness ==
    \E r \in Runs :
        /\ pc[r] = "AwaitWriter"
        /\ log[r].failures = 0
        /\ log[r].draftCalls = MaxDrafts
        /\ log[r].revisions = MaxDrafts - 1
        /\ result[r] = <<>>


\* The feedback carried by the rewrite prompt the run's stored exchange began with.
EarlierFeedback(r) == state[r][1].write_agent_messages[1].prompt[1].feedback

\* C17: the request of a second or later writer call carries no feedback but
\* that of the feedback call just before it (none at all when that feedback is
\* empty), and carries no email drafted before.
C17_FeedbackNotAccumulated ==
    \A r \in Runs :
        pc[r] = "AwaitWriter" /\ log[r].draftCalls >= 2 =>
            \A q \in PendingOf(r, "email_writer_agent") :
                LET last == log[r].lastOutcome[1].feedback
                IN  /\ q.prompt.email = <<>>
                    /\ q.prompt.feedback \in {<<>>, last}
                    /\ Truthy(last) => q.prompt.feedback = last

\* The third writer call, after two different feedback texts.
C17_Witness ==
    \E r \in Runs :
        /\ pc[r] = "AwaitWriter"
        /\ log[r].draftCalls = 3
        /\ EarlierFeedback(r) = <<"mention gardening">>
        /\ log[r].lastOutcome = <<EmailRequiresWrite("mention chess")>>
        /\ \A q \in PendingOf(r, "email_writer_agent") :
              q.prompt.feedback = <<"mention chess">>


\* C18: a run of the example graph started at NodeA(n) executes NodeA, then
\* NodeB, then NodeC only when n is not 1, every node with track number n; it
\* ends after at most three node executions, at NodeB for n = 1 and at NodeC
\* otherwise, with n in its result.
C18_ExampleGraph ==
    /\ [](/\ Len(example.executed) <= 3
          /\ IsPrefix(example.executed, <<"NodeA", "NodeB", "NodeC">>)
          /\ example.track_number = example.start
          /\ example.start = 1 => Len(example.executed) <= 2
          /\ example.node = "End" =>
                IF example.start = 1
                THEN /\ example.executed = <<"NodeA", "NodeB">>
                     /\ example.result = <<StopAt("B", example.start)>>
                ELSE /\ example.executed = <<"NodeA", "NodeB", "NodeC">>
                     /\ example.result = <<StopAt("C", example.start)>>)
    /\ <>(example.node = "End")

C18_Witness ==
    /\ example.node = "End"
    /\ example.start = 2
    /\ example.executed = <<"NodeA", "NodeB", "NodeC">>
    /\ example.result = <<StopAt("C", 2)>>

====
